---- MODULE Spec2Model ----
(***************************************************************************)
(* Model of the OpenStack polling core of the LMA collector:               *)
(*   OSClient            the shared credential session,                    *)
(*   OpenstackApiPoller  one background page-walking thread per URL,       *)
(*   CollectdPlugin      the registry of pollers and its request path.     *)
(* Every thread (a caller of the plugin, or a poller) runs the code of the *)
(* source one statement group at a time; th[t] holds its program counter,  *)
(* call stack and locals.                                                  *)
(***************************************************************************)
EXTENDS Integers, Sequences, FiniteSets, TLC

(* ------------------------------ bounds -------------------------------- *)
\* the clock runs from 0 to MaxNow seconds
MaxNow == 3
\* the identity service issues at most MaxTokens tokens
MaxTokens == 2
\* a token lives EXPIRATION_TOKEN_DELTA - 1 .. EXPIRATION_TOKEN_DELTA + MaxLife seconds
MaxLife == 1
\* poller threads that can be created
MaxPollers == 2
\* objects in the polled collection
MaxObjs == 3
\* largest pagination limit (also the server's own page cap)
MaxLimit == 2

(* ------------------------- program constants -------------------------- *)
EXPIRATION_TOKEN_DELTA == 30

(* ------------------------------ values -------------------------------- *)
\* Python's None is the empty tuple, a value v is <<v>>
None == <<>>
Some(v) == <<v>>

Callers == {<<"caller", 1>>, <<"caller", 2>>}
Pollers == {<<"poller", i>> : i \in 1..MaxPollers}
Threads == Callers \cup Pollers

P1 == <<"poller", 1>>

\* URLs are strings, modelled as sequences of characters
Str1(a) == <<a>>
Str2(a, b) == <<a, b>>

Endpoint(int, adm) == [region |-> "RegionOne", internalURL |-> int, adminURL |-> adm]
ItemNova == [name |-> "nova", type |-> "compute",
             endpoints |-> <<Endpoint(Str1("n"), Str1("m"))>>]
ItemKeystone == [name |-> "keystone", type |-> "identity",
                 endpoints |-> <<Endpoint(Str2("k", "/"), Str1("a"))>>]
\* a malformed catalog item: item['endpoints'][0] raises IndexError
ItemNoEndpoint == [name |-> "cinder", type |-> "volume", endpoints |-> <<>>]

CatFull == <<ItemNova, ItemKeystone>>
CatNova == <<ItemNova>>
CatBad == <<ItemNova, ItemNoEndpoint>>
GoodCatalogs == {CatFull, CatNova, <<>>}

\* The decoded body of POST <keystone>/tokens. id = -1: the key is missing,
\* id = 0: the empty string; tenant = "": the key is missing; expires = None:
\* missing or unparsable.
NoPay == [id |-> -1, tenant |-> "", expires |-> None, cat |-> <<>>]
\* The decoded body of a GET on a collection.
NoPage == [haskey |-> FALSE, objs |-> <<>>, links |-> "absent"]
\* An HTTP response; status 0 stands for "no response" (make_request returned None)
Resp(st, js, pay, page) == [status |-> st, json |-> js, pay |-> pay, page |-> page]
NoResp == Resp(0, FALSE, NoPay, NoPage)

\* requests.Response.__bool__ is Response.ok: false for a status >= 400
Falsy(resp) == resp.status = 0 \/ resp.status >= 400

\* make_request, line 152: if r.status_code == 401
UnauthorizedIgnored(resp) == FALSE
Unauthorized(resp) == resp.status = 401

FaultKinds == {"exc", "err", "unauth", "redirect", "nonjson", "nokey", "badpay"}

NoHdr == [set |-> FALSE, val |-> None]
\* What a caller's operation came to: the exception raised to the caller or the
\* value returned; aborted: make_request gave up for want of a token; sent:
\* make_request issued its HTTP call.
\* get_objects: founddead, it found the poller of its URL dead; evicted, the
\* dead poller it removed; started, the poller it
\* created and started; renewed, the dead poller this caller's previous call
\* for the same URL removed.
NoResult == [op |-> "", treq |-> FALSE, raised |-> "", aborted |-> FALSE,
             sent |-> FALSE, resp |-> NoResp, url |-> None, objs |-> <<>>,
             founddead |-> FALSE, evicted |-> None, started |-> None,
             renewed |-> None]
NoOpts == [limit |-> None, marker |-> None]
NoPre == [tenant_id |-> None, service_catalog |-> <<>>]

(* ------------------------------ state --------------------------------- *)
VARIABLES
    \* OSClient fields
    token, valid_until, tenant_id, service_catalog,
    \* the environment: the clock, the server expiry of every token issued,
    \* the faults the network and the servers may produce, the collection size
    \* and the way the server reports pagination links
    \* srv_cats and srv_ttls are the catalogs and the token lifetimes the identity
    \* service hands out.
    now, srv_exp, faults, srv_n, srv_links, srv_cats, srv_ttls,
    \* CollectdPlugin fields
    pagination_limit, polling_interval, _threads,
    \* OpenstackApiPoller fields, per poller thread: the snapshot, the base
    \* parameters, the URL polled, and whether the thread is unborn, alive or dead
    _objects, params, url, alive,
    \* per thread: program counter, call stack and locals
    th,
    \* history, per poller: the results of its page-walks that ended successfully
    walks_ok

clientVars == <<token, valid_until, tenant_id, service_catalog>>
envVars == <<now, srv_exp, faults, srv_n, srv_links, srv_cats, srv_ttls>>
cfgVars == <<pagination_limit, polling_interval>>
pollerVars == <<_objects, params, url, alive>>
vars == <<clientVars, envVars, cfgVars, _threads, pollerVars, th, walks_ok>>

InitLocals == [pc |-> "off", stack |-> <<>>, treq |-> FALSE, hdr |-> NoHdr,
               r |-> NoResp, data |-> NoPay, ci |-> 1, opts |-> NoOpts,
               service |-> "", resource |-> <<>>, url |-> None,
               objs |-> <<>>, started_at |-> 0, wake |-> 0, ended |-> "",
               tloc |-> None, gone |-> None,
               result |-> NoResult, pre |-> NoPre, stale |-> None, nreq |-> 0]

(* ------------------------- thread bookkeeping ------------------------- *)
Set(t, fields) == th' = [th EXCEPT ![t] = fields]
Goto(t, label) == Set(t, [th[t] EXCEPT !.pc = label])
\* call a procedure: continue at `entry', come back at `back'
Call(l, entry, back) == [l EXCEPT !.pc = entry, !.stack = <<back>> \o @]
\* return the response `val' to the caller
Return(l, val) == [l EXCEPT !.pc = Head(l.stack), !.stack = Tail(l.stack), !.r = val]
\* a caller's operation has ended: its locals are gone, its result is kept
\* until its next operation starts
Idle(l, res) ==
    [InitLocals EXCEPT !.pc = "idle", !.result = res, !.pre = l.pre, !.stale = l.stale,
                       !.gone = l.gone]
\* an exception nothing catches below the thread's outermost frame: a poller's
\* run() catches it in its except clause, a caller of the plugin gets it raised
Raise(t, l, exc) ==
    IF t \in Pollers
    THEN [l EXCEPT !.pc = "run_except", !.stack = <<>>]
    ELSE Idle(l, [l.result EXCEPT !.raised = exc])

(* ------------------------------ OSClient ------------------------------ *)
Truthy(tok) == tok # None /\ tok[1] # 0

is_valid_token_inclusive ==
    Truthy(token) /\ valid_until # None /\ valid_until[1] >= now
\* is_valid_token, lines 68-70
is_valid_token ==
    Truthy(token) /\ valid_until # None /\ valid_until[1] > now

\* clear_token, first statement: self.token = None
ClearToken1(t) ==
    /\ th[t].pc = "ct_token"
    /\ token' = None
    /\ Goto(t, "ct_valid")
    /\ UNCHANGED <<valid_until, tenant_id, service_catalog, envVars, cfgVars,
                   _threads, pollerVars, walks_ok>>

\* clear_token, second statement: self.valid_until = None, and return
ClearToken2(t) ==
    /\ th[t].pc = "ct_valid"
    /\ valid_until' = None
    /\ Set(t, [th[t] EXCEPT !.pc = Head(th[t].stack), !.stack = Tail(th[t].stack)])
    /\ UNCHANGED <<token, tenant_id, service_catalog, envVars, cfgVars,
                   _threads, pollerVars, walks_ok>>

\* What the identity service can answer to POST /tokens at this moment: the
\* response, and the expiry the service registered if it issued a token.
TTLs == (EXPIRATION_TOKEN_DELTA - 1) .. (EXPIRATION_TOKEN_DELTA + MaxLife)
NextId == Len(srv_exp) + 1
Answer(resp, exp) == [resp |-> resp, exp |-> exp]
Payload(ttl, c) ==
    [id |-> NextId, tenant |-> "tenant", expires |-> Some(now + ttl), cat |-> c]
GoodAnswers ==
    {Answer(Resp(200, TRUE, Payload(ttl, c), NoPage), Some(now + ttl)) :
        ttl \in srv_ttls, c \in srv_cats}
BadPayloads ==
    LET good == Payload(EXPIRATION_TOKEN_DELTA + MaxLife, CatNova)
    IN {[good EXCEPT !.id = -1], [good EXCEPT !.id = 0], [good EXCEPT !.tenant = ""],
        [good EXCEPT !.expires = None], [good EXCEPT !.cat = CatBad]}
BadAnswers ==
    {Answer(Resp(200, TRUE, p, NoPage),
            IF p.id > 0 THEN Some(now + EXPIRATION_TOKEN_DELTA + MaxLife) ELSE None) :
        p \in BadPayloads}
AuthAnswers ==
    {Answer(NoResp, None) : x \in {"exc"} \cap faults}
    \cup {Answer(Resp(500, TRUE, NoPay, NoPage), None) : x \in {"err"} \cap faults}
    \cup {Answer(Resp(401, TRUE, NoPay, NoPage), None) : x \in {"unauth"} \cap faults}
    \cup {Answer(Resp(300, TRUE, NoPay, NoPage), None) : x \in {"redirect"} \cap faults}
    \cup {Answer(Resp(200, FALSE, NoPay, NoPage), None) : x \in {"nonjson"} \cap faults}
    \cup (IF NextId <= MaxTokens
          THEN GoodAnswers \cup (IF "badpay" \in faults THEN BadAnswers ELSE {})
          ELSE {Answer(Resp(500, TRUE, NoPay, NoPage), None)})

\* get_token, line 77: self.clear_token()
GetTokenEnter(t) ==
    /\ th[t].pc = "gt_enter"
    /\ Set(t, Call([th[t] EXCEPT !.pre = [tenant_id |-> tenant_id,
                                           service_catalog |-> service_catalog]],
                   "ct_token", "gt_post"))
    /\ UNCHANGED <<clientVars, envVars, cfgVars, _threads, pollerVars, walks_ok>>

\* get_token, lines 90-92: make_request('post', .../tokens, token_required=False).
\* The nested make_request sends the request, returns None on a transport
\* exception and clears the token on a 401.
GetTokenPost(t) ==
    /\ th[t].pc = "gt_post"
    /\ \E a \in AuthAnswers :
        /\ srv_exp' = IF a.exp # None THEN Append(srv_exp, a.exp[1]) ELSE srv_exp
        /\ Set(t, IF a.resp.status # 0 /\ Unauthorized(a.resp)
                  THEN Call([th[t] EXCEPT !.r = a.resp], "ct_token", "gt_check")
                  ELSE [th[t] EXCEPT !.r = a.resp, !.pc = "gt_check"])
    /\ UNCHANGED <<clientVars, now, faults, srv_n, srv_links, srv_cats, srv_ttls,
                   cfgVars, _threads,
                   pollerVars, walks_ok>>

\* get_token, lines 93-101: no response or an error status raises
\* KeystoneException; r.json() raises ValueError on a body that is not JSON
GetTokenCheck(t) ==
    /\ th[t].pc = "gt_check"
    /\ LET l == th[t] IN
        Set(t, IF Falsy(l.r) THEN Raise(t, l, "KeystoneException")
               ELSE IF l.r.status < 200 \/ l.r.status > 299
                    THEN Raise(t, l, "KeystoneException")
               ELSE IF ~l.r.json THEN Raise(t, l, "ValueError")
               ELSE [l EXCEPT !.data = l.r.pay, !.pc = "gt_token"])
    /\ UNCHANGED <<clientVars, envVars, cfgVars, _threads, pollerVars, walks_ok>>

\* get_token, line 103: self.token = data['access']['token']['id']
GetTokenToken(t) ==
    /\ th[t].pc = "gt_token"
    /\ LET l == th[t] IN
        IF l.data.id = -1
        THEN Set(t, Raise(t, l, "KeyError")) /\ UNCHANGED token
        ELSE token' = Some(l.data.id) /\ Goto(t, "gt_tenant")
    /\ UNCHANGED <<valid_until, tenant_id, service_catalog, envVars, cfgVars,
                   _threads, pollerVars, walks_ok>>

\* get_token, line 104: self.tenant_id = data['access']['token']['tenant']['id']
GetTokenTenant(t) ==
    /\ th[t].pc = "gt_tenant"
    /\ LET l == th[t] IN
        IF l.data.tenant = ""
        THEN Set(t, Raise(t, l, "KeyError")) /\ UNCHANGED tenant_id
        ELSE tenant_id' = Some(l.data.tenant) /\ Goto(t, "gt_expires")
    /\ UNCHANGED <<token, valid_until, service_catalog, envVars, cfgVars,
                   _threads, pollerVars, walks_ok>>

\* get_token, lines 105-106: self.valid_until = parse(expires) - DELTA
GetTokenExpires(t) ==
    /\ th[t].pc = "gt_expires"
    /\ LET l == th[t] IN
        IF l.data.expires = None
        THEN Set(t, Raise(t, l, "KeyError")) /\ UNCHANGED valid_until
        ELSE /\ valid_until' = Some(l.data.expires[1] - EXPIRATION_TOKEN_DELTA)
             /\ Goto(t, "gt_catalog")
    /\ UNCHANGED <<token, tenant_id, service_catalog, envVars, cfgVars,
                   _threads, pollerVars, walks_ok>>

\* get_token, line 107: self.service_catalog = []
GetTokenCatalog(t) ==
    /\ th[t].pc = "gt_catalog"
    /\ service_catalog' = <<>>
    /\ Set(t, [th[t] EXCEPT !.pc = "gt_item", !.ci = 1])
    /\ UNCHANGED <<token, valid_until, tenant_id, envVars, cfgVars,
                   _threads, pollerVars, walks_ok>>

CatalogEntry(item) ==
    [name |-> item.name,
     region |-> item.endpoints[1].region,
     service_type |-> item.type,
     url |-> item.endpoints[1].internalURL,
     admin_url |-> item.endpoints[1].adminURL]

\* get_token, lines 108-116: one turn of the loop over the serviceCatalog
GetTokenItem(t) ==
    /\ th[t].pc = "gt_item"
    /\ LET l == th[t] IN
        IF l.ci > Len(l.data.cat)
        THEN Goto(t, "gt_return") /\ UNCHANGED service_catalog
        ELSE IF l.data.cat[l.ci].endpoints = <<>>
        THEN Set(t, Raise(t, l, "IndexError")) /\ UNCHANGED service_catalog
        ELSE /\ service_catalog' = Append(service_catalog, CatalogEntry(l.data.cat[l.ci]))
             /\ Set(t, [l EXCEPT !.ci = @ + 1])
    /\ UNCHANGED <<token, valid_until, tenant_id, envVars, cfgVars,
                   _threads, pollerVars, walks_ok>>

\* get_token, line 119: return self.token. In make_request (lines 128-133) a
\* falsy token aborts the request, which returns None; in the service_catalog
\* property (line 356) the value is dropped.
GetTokenReturn(t) ==
    /\ th[t].pc = "gt_return"
    /\ LET l == th[t]
           back == Head(l.stack) IN
        Set(t, IF back = "mr_header" /\ ~Truthy(token)
               THEN Return([l EXCEPT !.stack = Tail(@), !.data = NoPay, !.ci = 1,
                                    !.pre = NoPre, !.result.aborted = TRUE], NoResp)
               ELSE [l EXCEPT !.pc = back, !.stack = Tail(@), !.data = NoPay, !.ci = 1,
                              !.r = NoResp, !.pre = NoPre])
    /\ UNCHANGED <<clientVars, envVars, cfgVars, _threads, pollerVars, walks_ok>>

\* make_request, lines 128-129: the token check
MakeRequestCheck(t) ==
    /\ th[t].pc = "mr_check"
    /\ LET l == th[t] IN
        Set(t, IF l.treq /\ ~is_valid_token THEN Call(l, "gt_enter", "mr_header")
               ELSE IF l.treq THEN [l EXCEPT !.pc = "mr_header"]
               ELSE [l EXCEPT !.pc = "mr_send"])
    /\ UNCHANGED <<clientVars, envVars, cfgVars, _threads, pollerVars, walks_ok>>

\* make_request, line 133: kwargs['headers']['X-Auth-Token'] = self.token
MakeRequestHeader(t) ==
    /\ th[t].pc = "mr_header"
    /\ Set(t, [th[t] EXCEPT !.hdr = [set |-> TRUE, val |-> token], !.pc = "mr_send"])
    /\ UNCHANGED <<clientVars, envVars, cfgVars, _threads, pollerVars, walks_ok>>

Min(a, b) == IF a < b THEN a ELSE b

\* The page of the collection the server returns for a marker and a limit:
\* the objects after the marker, at most `limit' of them and never more than
\* the server's own cap, with a "next" link when more objects remain.
Page(marker, limit) ==
    LET size == IF limit = None THEN MaxLimit ELSE Min(limit[1], MaxLimit)
        first == IF marker = None THEN 1 ELSE marker[1] + 1
        last == Min(first + size - 1, srv_n)
        links == IF last < srv_n /\ srv_links # "never" THEN "next"
                 ELSE IF srv_links = "always" THEN "nonext" ELSE "absent"
    IN [haskey |-> TRUE,
        objs |-> [i \in 1..(IF last < first THEN 0 ELSE last - first + 1) |->
                     [id |-> first + i - 1]],
        links |-> links]

\* what a GET can be answered at this moment
GetAnswers(opts) ==
    {NoResp : x \in {"exc"} \cap faults}
    \cup {Resp(500, TRUE, NoPay, NoPage) : x \in {"err"} \cap faults}
    \cup {Resp(401, TRUE, NoPay, NoPage) : x \in {"unauth"} \cap faults}
    \cup {Resp(200, FALSE, NoPay, NoPage) : x \in {"nonjson"} \cap faults}
    \cup {Resp(200, TRUE, NoPay, NoPage) : x \in {"nokey"} \cap faults}
    \cup {Resp(200, TRUE, NoPay, Page(opts.marker, opts.limit))}

\* make_request, lines 141-156: send the request. A transport exception is
\* logged and None returned; a 401 clears the token; the response is returned.
\* stale remembers, from a 401 on a token-required request to the next
\* token-required request sent by a caller, how many tokens had been issued at the 401;
\* nreq counts the requests a poller sent in its current cycle.
MakeRequestSend(t) ==
    /\ th[t].pc = "mr_send"
    /\ \E resp \in GetAnswers(th[t].opts) :
        LET l == [th[t] EXCEPT !.stale = IF t \in Pollers THEN None
                                          ELSE IF resp.status = 401 /\ th[t].treq
                                          THEN Some(Len(srv_exp))
                                          ELSE IF th[t].treq THEN None ELSE @,
                               !.nreq = IF t \in Pollers THEN @ + 1 ELSE @,
                               !.result.sent = t \in Callers]
        IN Set(t, IF resp.status = 0 THEN Return(l, NoResp)
                  ELSE IF Unauthorized(resp)
                       THEN Call([l EXCEPT !.r = resp], "ct_token", "mr_return")
                  ELSE Return(l, resp))
    /\ UNCHANGED <<clientVars, envVars, cfgVars, _threads, pollerVars, walks_ok>>

\* make_request, line 156: return r
MakeRequestReturn(t) ==
    /\ th[t].pc = "mr_return"
    /\ Set(t, Return(th[t], th[t].r))
    /\ UNCHANGED <<clientVars, envVars, cfgVars, _threads, pollerVars, walks_ok>>

(* --------------------------- CollectdPlugin --------------------------- *)
Servers == <<"s", "e", "r", "v", "e", "r", "s">>
Tenants == <<"t", "e", "n", "a", "n", "t", "s">>
Users == <<"u", "s", "e", "r", "s">>
OSKS == <<"O", "S", "-", "K", "S">>
Slash == "/"
\* the URL of the servers of nova, as _build_url builds it from ItemNova
NovaServers == <<"n", "/">> \o Servers

\* Python's `sub in s' on strings
Contains(s, sub) ==
    \E i \in 0..(Len(s) - Len(sub)) : SubSeq(s, i + 1, i + Len(sub)) = sub

\* get_service: the first catalog entry of that name, or None
get_service(catalog, service_name) ==
    LET hits == {i \in 1..Len(catalog) : catalog[i].name = service_name}
    IN IF hits = {} THEN None
       ELSE Some(catalog[CHOOSE i \in hits : \A j \in hits : i <= j])

\* _build_url without the choice of line 266-268: always s.get('url')
build_url_primary(catalog, service, resource) ==
    LET s == get_service(catalog, service)
        base == IF s = None THEN None ELSE Some(s[1].url)
    IN IF base # None /\ base[1] # <<>>
       THEN Some((IF base[1][Len(base[1])] # Slash THEN Append(base[1], Slash)
                  ELSE base[1]) \o resource)
       ELSE base
\* _build_url, lines 264-278, on the catalog the service_catalog property returned
build_url(catalog, service, resource) ==
    LET s == get_service(catalog, service)
        admin == service = "keystone"
                 /\ (resource \in {Tenants, Users} \/ Contains(resource, OSKS))
        base == IF s = None THEN None
                ELSE IF admin THEN Some(s[1].admin_url) ELSE Some(s[1].url)
    IN IF base # None /\ base[1] # <<>>
       THEN Some((IF base[1][Len(base[1])] # Slash THEN Append(base[1], Slash)
                  ELSE base[1]) \o resource)
       ELSE base

\* raw_get(url, token_required), lines 280-282
RawGet(t) ==
    /\ th[t].pc = "idle"
    /\ \E tr \in BOOLEAN :
        Set(t, Call([th[t] EXCEPT !.treq = tr, !.hdr = NoHdr, !.opts = NoOpts,
                                  !.pre = NoPre,
                                  !.result = [NoResult EXCEPT !.op = "raw_get", !.treq = tr]],
                    "mr_check", "rg_return"))
    /\ UNCHANGED <<clientVars, envVars, cfgVars, _threads, pollerVars, walks_ok>>

RawGetReturn(t) ==
    /\ th[t].pc = "rg_return"
    /\ Set(t, Idle(th[t], [th[t].result EXCEPT !.resp = th[t].r]))
    /\ UNCHANGED <<clientVars, envVars, cfgVars, _threads, pollerVars, walks_ok>>

\* the service_catalog property, lines 353-356, as _build_url's get_service
\* reads it: an empty catalog makes it call get_token first
BuildUrlCatalog(t) ==
    /\ th[t].pc = "bu_catalog"
    /\ Set(t, IF service_catalog = <<>> THEN Call(th[t], "gt_enter", "bu_url")
              ELSE [th[t] EXCEPT !.pc = "bu_url"])
    /\ UNCHANGED <<clientVars, envVars, cfgVars, _threads, pollerVars, walks_ok>>

\* line 357 and _build_url, lines 264-278: read the catalog, build the URL
BuildUrlReturn(t) ==
    /\ th[t].pc = "bu_url"
    /\ LET l == th[t] IN
        Set(t, [l EXCEPT !.url = build_url(service_catalog, l.service, l.resource),
                         !.pc = Head(l.stack), !.stack = Tail(l.stack)])
    /\ UNCHANGED <<clientVars, envVars, cfgVars, _threads, pollerVars, walks_ok>>

Services == {"nova", "keystone"}
Resources == {Servers, Tenants}

\* get(service, resource), line 345: url = self._build_url(service, resource)
Get(t) ==
    /\ th[t].pc = "idle"
    /\ \E sv \in Services, rs \in Resources :
        Set(t, Call([th[t] EXCEPT !.service = sv, !.resource = rs, !.url = None,
                                  !.pre = NoPre,
                                  !.result = [NoResult EXCEPT !.op = "get"]],
                    "bu_catalog", "get_url"))
    /\ UNCHANGED <<clientVars, envVars, cfgVars, _threads, pollerVars, walks_ok>>

\* get, lines 346-349: no URL returns None, else make_request('get', url)
GetUrl(t) ==
    /\ th[t].pc = "get_url"
    /\ LET l == [th[t] EXCEPT !.result.url = th[t].url] IN
        Set(t, IF l.url = None \/ l.url[1] = <<>>
               THEN Idle(l, l.result)
               ELSE Call([l EXCEPT !.treq = TRUE, !.hdr = NoHdr, !.opts = NoOpts,
                                   !.result.treq = TRUE],
                         "mr_check", "get_return"))
    /\ UNCHANGED <<clientVars, envVars, cfgVars, _threads, pollerVars, walks_ok>>

GetReturn(t) ==
    /\ th[t].pc = "get_return"
    /\ Set(t, Idle(th[t], [th[t].result EXCEPT !.resp = th[t].r]))
    /\ UNCHANGED <<clientVars, envVars, cfgVars, _threads, pollerVars, walks_ok>>

\* get_objects, lines 392-403: build the resource path and call _build_url
GetObjects(t) ==
    /\ th[t].pc = "idle"
    /\ \E sv \in Services :
        Set(t, Call([th[t] EXCEPT !.service = sv, !.resource = Servers, !.url = None,
                                  !.pre = NoPre,
                                  !.result = [NoResult EXCEPT !.op = "get_objects"]],
                    "bu_catalog", "go_url"))
    /\ UNCHANGED <<clientVars, envVars, cfgVars, _threads, pollerVars, walks_ok>>

\* get_objects, lines 404-411: no URL returns [], else the parameters are built
GetObjectsUrl(t) ==
    /\ th[t].pc = "go_url"
    /\ LET l == [th[t] EXCEPT !.result.url = th[t].url] IN
        Set(t, IF l.url = None \/ l.url[1] = <<>>
               THEN Idle(l, l.result)
               ELSE [l EXCEPT !.pc = "go_lookup",
                              !.opts = [NoOpts EXCEPT !.limit = pagination_limit]])
    /\ UNCHANGED <<clientVars, envVars, cfgVars, _threads, pollerVars, walks_ok>>

\* get_objects, lines 412 and 421: is there a poller for the URL?
GetObjectsLookup(t) ==
    /\ th[t].pc = "go_lookup"
    /\ LET l == th[t] IN
        Set(t, IF l.url[1] \notin DOMAIN _threads
               THEN [l EXCEPT !.pc = "go_create"]
               ELSE [l EXCEPT !.pc = "go_alive", !.tloc = Some(_threads[l.url[1]])])
    /\ UNCHANGED <<clientVars, envVars, cfgVars, _threads, pollerVars, walks_ok>>

\* get_objects, lines 413-418: t = OpenstackApiPoller(...); t.start()
GetObjectsCreate(t) ==
    /\ th[t].pc = "go_create"
    /\ \E p \in Pollers :
        /\ alive[p] = "unborn"
        /\ \A q \in Pollers : alive[q] = "unborn" => p[2] <= q[2]
        /\ _objects' = [_objects EXCEPT ![p] = <<>>]
        /\ params' = [params EXCEPT ![p] = th[t].opts]
        /\ url' = [url EXCEPT ![p] = th[t].url]
        /\ alive' = [alive EXCEPT ![p] = "alive"]
        /\ th' = [th EXCEPT ![t] = [@ EXCEPT !.pc = "go_register", !.tloc = Some(p),
                                             !.result.started = Some(p)],
                            ![p] = [InitLocals EXCEPT !.pc = "run_loop"]]
    /\ UNCHANGED <<clientVars, envVars, cfgVars, _threads, walks_ok>>

\* get_objects, line 419: self._threads[url] = t
GetObjectsRegister(t) ==
    /\ th[t].pc = "go_register"
    /\ LET l == th[t] IN
        /\ _threads' = [u \in DOMAIN _threads \cup {l.url[1]} |->
                           IF u = l.url[1] THEN l.tloc[1] ELSE _threads[u]]
        /\ Goto(t, "go_return")
    /\ UNCHANGED <<clientVars, envVars, cfgVars, pollerVars, walks_ok>>

\* get_objects, line 422: if not t.is_alive()
GetObjectsAlive(t) ==
    /\ th[t].pc = "go_alive"
    /\ Set(t, IF alive[th[t].tloc[1]] # "alive"
              THEN [th[t] EXCEPT !.pc = "go_del", !.result.founddead = TRUE]
              ELSE [th[t] EXCEPT !.pc = "go_return"])
    /\ UNCHANGED <<clientVars, envVars, cfgVars, _threads, pollerVars, walks_ok>>

\* returns [] and leaves the entry of the dead poller in place
GetObjectsDelKeepsEntry(t) ==
    /\ th[t].pc = "go_del"
    /\ LET l == th[t] IN
        Set(t, Idle([l EXCEPT !.gone = Some([url |-> l.url[1],
                                             poller |-> _threads[l.url[1]]])],
                    [l.result EXCEPT !.evicted = Some(_threads[l.url[1]])]))
    /\ UNCHANGED <<clientVars, envVars, cfgVars, _threads, pollerVars, walks_ok>>

\* get_objects, lines 423-424: del self._threads[url]; return []
GetObjectsDel(t) ==
    /\ th[t].pc = "go_del"
    /\ LET l == th[t] IN
        IF l.url[1] \notin DOMAIN _threads
        THEN Set(t, Raise(t, l, "KeyError")) /\ UNCHANGED _threads
        ELSE /\ _threads' = [u \in DOMAIN _threads \ {l.url[1]} |-> _threads[u]]
             /\ Set(t, Idle([l EXCEPT !.gone = Some([url |-> l.url[1],
                                                       poller |-> _threads[l.url[1]]])],
                            [l.result EXCEPT !.evicted = Some(_threads[l.url[1]])]))
    /\ UNCHANGED <<clientVars, envVars, cfgVars, pollerVars, walks_ok>>

\* get_objects, line 426: return t.get_objects(). gone (history) is the URL
\* from which this caller evicted a dead poller, and that poller, until the
\* caller's next call for that URL returns.
GetObjectsReturn(t) ==
    /\ th[t].pc = "go_return"
    /\ LET l == th[t]
           again == l.gone # None /\ l.gone[1].url = l.url[1] IN
        Set(t, Idle([l EXCEPT !.gone = IF again THEN None ELSE @],
                    [l.result EXCEPT !.objs = _objects[l.tloc[1]],
                                     !.renewed = IF again THEN Some(l.gone[1].poller)
                                                 ELSE None]))
    /\ UNCHANGED <<clientVars, envVars, cfgVars, _threads, pollerVars, walks_ok>>

RegistryStep(t) ==
    \/ GetObjects(t) \/ GetObjectsUrl(t) \/ GetObjectsLookup(t)
    \/ GetObjectsCreate(t) \/ GetObjectsRegister(t)
    \/ GetObjectsAlive(t) \/ GetObjectsDel(t) \/ GetObjectsReturn(t)
    \/ BuildUrlCatalog(t) \/ BuildUrlReturn(t)

(* ------------------------- OpenstackApiPoller ------------------------ *)
\* run, lines 181-186 with the parameters of the last cycle kept instead of a
\* fresh copy of the base parameters
RunCycleKeepsOpts(p) ==
    /\ th[p].pc = "run_loop"
    /\ Set(p, [th[p] EXCEPT !.objs = <<>>,
                            !.opts = IF th[p].opts = NoOpts THEN params[p] ELSE @,
                            !.started_at = now,
                            !.nreq = 0, !.ended = "", !.pc = "run_request"])
    /\ UNCHANGED <<clientVars, envVars, cfgVars, _threads, pollerVars, walks_ok>>

\* run, lines 181-186: a cycle starts with an empty accumulator, a copy of the
\* base parameters and the start time. ended (history) tells how the walk of
\* the cycle ended: "ok", "failed" (line 191) or "exception" (line 239).
RunCycle(p) ==
    /\ th[p].pc = "run_loop"
    /\ Set(p, [th[p] EXCEPT !.objs = <<>>, !.opts = params[p], !.started_at = now,
                            !.nreq = 0, !.ended = "", !.pc = "run_request"])
    /\ UNCHANGED <<clientVars, envVars, cfgVars, _threads, pollerVars, walks_ok>>

\* run, lines 188-190: r = self.os_client.make_request('get', self.url, params=opts)
RunRequest(p) ==
    /\ th[p].pc = "run_request"
    /\ Set(p, Call([th[p] EXCEPT !.treq = TRUE, !.hdr = NoHdr], "mr_check", "run_response"))
    /\ UNCHANGED <<clientVars, envVars, cfgVars, _threads, pollerVars, walks_ok>>

\* run, line 212: objs.extend(bulk_objs)
ExtendReplaces(objs, bulk_objs) == bulk_objs
Extend(objs, bulk_objs) == objs \o bulk_objs

\* lines 214-225 without the test of the pagination limit
LastPageByLinksOnly(page, limit) == page.links # "next"
\* run, lines 214-225: the page is the last of the walk when the response has
\* no links field, when no pagination limit is configured, or when the links
\* hold no "next"
LastPage(page, limit) ==
    page.links = "absent" \/ limit = None \/ page.links = "nonext"

\* run, lines 191-227: what the walk does with the response to one request
RunResponse(p) ==
    /\ th[p].pc = "run_response"
    /\ LET l == [th[p] EXCEPT !.r = NoResp, !.hdr = NoHdr]
           r == th[p].r
           bulk_objs == r.page.objs
           objs == Extend(l.objs, bulk_objs)
           done == [l EXCEPT !.pc = "run_pace", !.ended = "ok"]
       IN
        IF Falsy(r)
        THEN \* lines 191-204: no response
             /\ _objects' = [_objects EXCEPT ![p] = <<>>]
             /\ Set(p, [l EXCEPT !.pc = "run_pace", !.ended = "failed"])
             /\ UNCHANGED walks_ok
        ELSE IF ~r.json
        THEN \* line 191: r.json() raises ValueError
             /\ Set(p, Raise(p, l, "ValueError"))
             /\ UNCHANGED <<_objects, walks_ok>>
        ELSE IF ~r.page.haskey
        THEN \* lines 191-204: the collection key is missing
             /\ _objects' = [_objects EXCEPT ![p] = <<>>]
             /\ Set(p, [l EXCEPT !.pc = "run_pace", !.ended = "failed"])
             /\ UNCHANGED walks_ok
        ELSE IF bulk_objs = <<>>
        THEN \* lines 208-210: an empty page ends the walk
             /\ Set(p, done)
             /\ walks_ok' = [walks_ok EXCEPT ![p] = @ \cup {l.objs}]
             /\ UNCHANGED _objects
        ELSE IF LastPage(r.page, params[p].limit)
        THEN \* lines 212-225: the last page
             /\ Set(p, [done EXCEPT !.objs = objs])
             /\ walks_ok' = [walks_ok EXCEPT ![p] = @ \cup {objs}]
             /\ UNCHANGED _objects
        ELSE \* line 227: opts['marker'] = bulk_objs[-1]['id']
             /\ Set(p, [l EXCEPT !.objs = objs, !.pc = "run_request",
                                 !.opts.marker = Some(bulk_objs[Len(bulk_objs)].id)])
             /\ UNCHANGED <<_objects, walks_ok>>
    /\ UNCHANGED <<clientVars, envVars, cfgVars, _threads, params, url, alive>>

\* run, lines 229-237: sleep what is left of the interval, or warn
RunPace(p) ==
    /\ th[p].pc = "run_pace"
    /\ LET tosleep == polling_interval - (now - th[p].started_at) IN
        Set(p, IF tosleep > 0
               THEN [th[p] EXCEPT !.pc = "run_sleep", !.wake = now + tosleep]
               ELSE [th[p] EXCEPT !.pc = "run_publish"])
    /\ UNCHANGED <<clientVars, envVars, cfgVars, _threads, pollerVars, walks_ok>>

\* run, line 231: time.sleep(tosleep) returns
RunSleep(p) ==
    /\ th[p].pc = "run_sleep"
    /\ now >= th[p].wake
    /\ Set(p, [th[p] EXCEPT !.pc = "run_publish", !.wake = 0])
    /\ UNCHANGED <<clientVars, envVars, cfgVars, _threads, pollerVars, walks_ok>>

\* run, lines 239-241: the except clause
RunExcept(p) ==
    /\ th[p].pc = "run_except"
    /\ _objects' = [_objects EXCEPT ![p] = <<>>]
    /\ Set(p, [th[p] EXCEPT !.pc = "run_publish", !.ended = "exception",
                            !.r = NoResp, !.hdr = NoHdr, !.data = NoPay, !.ci = 1,
                            !.pre = NoPre])
    /\ UNCHANGED <<clientVars, envVars, cfgVars, _threads, params, url, alive, walks_ok>>

\* the end of a cycle without the assignment of line 243
RunPublishNothing(p) ==
    /\ th[p].pc = "run_publish"
    /\ Set(p, [th[p] EXCEPT !.pc = "run_loop", !.started_at = 0])
    /\ UNCHANGED <<clientVars, envVars, cfgVars, _threads, pollerVars, walks_ok>>

\* run, line 243: self._objects = objs
RunPublish(p) ==
    /\ th[p].pc = "run_publish"
    /\ _objects' = [_objects EXCEPT ![p] = th[p].objs]
    /\ Set(p, [th[p] EXCEPT !.pc = "run_loop", !.started_at = 0])
    /\ UNCHANGED <<clientVars, envVars, cfgVars, _threads, params, url, alive, walks_ok>>

PollerStep(p) ==
    \/ RunCycle(p) \/ RunRequest(p) \/ RunResponse(p)
    \/ RunPace(p) \/ RunSleep(p) \/ RunExcept(p) \/ RunPublish(p)

\* run ends: an exception raised outside the try of lines 185-241 (lines 181-184
\* and the except clause itself) ends the thread
Die(p) ==
    /\ th[p].pc = "run_loop"
    /\ alive[p] = "alive"
    /\ alive' = [alive EXCEPT ![p] = "dead"]
    /\ Set(p, [InitLocals EXCEPT !.pc = "dead"])
    /\ UNCHANGED <<clientVars, envVars, cfgVars, _threads, _objects, params, url, walks_ok>>

(* ------------------------------ the clock ----------------------------- *)
Tick ==
    /\ now < MaxNow
    /\ now' = now + 1
    /\ UNCHANGED <<clientVars, srv_exp, faults, srv_n, srv_links, srv_cats, srv_ttls,
                   cfgVars, _threads,
                   pollerVars, th, walks_ok>>

(* --------------------- the session used by one caller ----------------- *)
ClientStep(t) ==
    \/ ClearToken1(t) \/ ClearToken2(t)
    \/ GetTokenEnter(t) \/ GetTokenPost(t) \/ GetTokenCheck(t)
    \/ GetTokenToken(t) \/ GetTokenTenant(t) \/ GetTokenExpires(t)
    \/ GetTokenCatalog(t) \/ GetTokenItem(t) \/ GetTokenReturn(t)
    \/ MakeRequestCheck(t) \/ MakeRequestHeader(t)
    \/ MakeRequestSend(t) \/ MakeRequestReturn(t)

RequestStep(t) ==
    \/ RawGet(t) \/ RawGetReturn(t)
    \/ BuildUrlCatalog(t) \/ BuildUrlReturn(t)
    \/ Get(t) \/ GetUrl(t) \/ GetReturn(t)

\* the state after config_callback: a fresh session, nothing polled
InitSession ==
    /\ token = None /\ valid_until = None /\ tenant_id = None
    /\ service_catalog = <<>>
    /\ now = 0 /\ srv_exp = <<>>

InitBase ==
    /\ InitSession
    /\ _threads = [u \in {} |-> P1]
    /\ _objects = [p \in Pollers |-> <<>>]
    /\ params = [p \in Pollers |-> NoOpts]
    /\ url = [p \in Pollers |-> None]
    /\ alive = [p \in Pollers |-> "unborn"]
    /\ walks_ok = [p \in Pollers |-> {}]

InitClient ==
    /\ InitBase
    /\ faults = FaultKinds
    /\ srv_n = 1 /\ srv_links = "always"
    /\ srv_cats = GoodCatalogs /\ srv_ttls = TTLs
    /\ pagination_limit = None /\ polling_interval = 1
    /\ th = [t \in Threads |->
                IF t = <<"caller", 1>> THEN [InitLocals EXCEPT !.pc = "idle"]
                ELSE InitLocals]

NextClient ==
    \/ Tick
    \/ \E t \in Callers : ClientStep(t) \/ RequestStep(t)

SpecClient == InitClient /\ [][NextClient]_vars

(* ------------------------- claims on the session ---------------------- *)
\* C4: a token-required make_request whose credential exchange failed returns
\* None to its caller, does not raise, and has not issued its HTTP call.
C4_FailedExchangeReturnsNone ==
    \A t \in Callers :
        LET res == th[t].result IN
        (th[t].pc = "idle" /\ res.op = "raw_get" /\ res.treq
            /\ (res.raised # "" \/ res.aborted))
        => (res.raised = "" /\ res.resp = NoResp /\ ~res.sent)

\* C5: a 401 on a token-required request leaves token and expiry cleared and
\* is returned to the caller; the next token-required request is sent only
\* after a credential exchange, with a token issued after the 401.
C5_UnauthorizedClearsToken ==
    \A t \in Callers :
        /\ (th[t].pc = "idle" /\ th[t].result.treq /\ th[t].result.resp.status = 401)
            => (token = None /\ valid_until = None)
        /\ (th[t].pc = "mr_return" /\ th[t].treq)
            => (th[t].r.status = 401 /\ Head(th[t].stack) \in {"rg_return", "get_return"})
        /\ (th[t].pc = "mr_send" /\ th[t].treq /\ th[t].stale # None)
            => (th[t].hdr.set /\ Truthy(th[t].hdr.val)
                /\ th[t].hdr.val[1] > th[t].stale[1])

C5_Witness ==
    \E t \in Callers :
        th[t].pc = "mr_send" /\ th[t].treq /\ th[t].stale # None /\ th[t].hdr.set

\* C6: is_valid_token() holds exactly when a token is held and the clock is
\* strictly before the expiry the server gave for it minus the 30 s margin.
C6_ValidTokenIffBeforeExpiry ==
    is_valid_token <=>
        (/\ Truthy(token) /\ valid_until # None
         /\ token[1] <= Len(srv_exp)
         /\ now < srv_exp[token[1]] - EXPIRATION_TOKEN_DELTA)

\* a token is held and the clock has just reached its safety-adjusted expiry
C6_Witness ==
    /\ Truthy(token) /\ valid_until # None
    /\ now = srv_exp[token[1]] - EXPIRATION_TOKEN_DELTA
    /\ now > 0

\* C7: after get_token failed, no valid token is held and tenant id and
\* service catalog are what they were before the call.
C7_FailedAuthKeepsState ==
    \A t \in Callers :
        (th[t].pc = "idle" /\ th[t].result.raised # "")
        => (/\ ~is_valid_token
            /\ tenant_id = th[t].pre.tenant_id
            /\ service_catalog = th[t].pre.service_catalog)

(* ----------------------- one poller on the session -------------------- *)
Limits == {None} \cup {Some(k) : k \in 1..MaxLimit}

\* the state once get_objects has created and started the first poller
Init ==
    /\ InitSession
    /\ faults = FaultKinds
    /\ srv_n \in 0..MaxObjs
    /\ srv_links \in {"always", "when_next"}
    /\ srv_cats = {CatNova} /\ srv_ttls = {EXPIRATION_TOKEN_DELTA + MaxLife}
    /\ pagination_limit \in Limits
    /\ polling_interval = 1
    /\ _threads = [u \in {NovaServers} |-> P1]
    /\ _objects = [p \in Pollers |-> <<>>]
    /\ params = [p \in Pollers |->
                    IF p = P1 THEN [NoOpts EXCEPT !.limit = pagination_limit] ELSE NoOpts]
    /\ url = [p \in Pollers |-> IF p = P1 THEN Some(NovaServers) ELSE None]
    /\ alive = [p \in Pollers |-> IF p = P1 THEN "alive" ELSE "unborn"]
    /\ walks_ok = [p \in Pollers |-> {}]
    /\ th = [t \in Threads |->
                IF t = P1 THEN [InitLocals EXCEPT !.pc = "run_loop"] ELSE InitLocals]

Next ==
    \/ Tick
    \/ \E p \in Pollers : ClientStep(p) \/ PollerStep(p)

Spec == Init /\ [][Next]_vars

(* -------------------------- claims on the poller ---------------------- *)
\* C1: the snapshot of a poller is always empty or the complete result of one
\* of its page-walks that ended successfully.
C1_SnapshotEmptyOrCompleteWalk ==
    \A p \in Pollers : _objects[p] = <<>> \/ _objects[p] \in walks_ok[p]

\* C2: when a page response of a cycle was absent or lacked the collection
\* key, the snapshot is empty once the cycle has ended.
C2_FailedPageEmptiesSnapshot ==
    \A p \in Pollers :
        (th[p].pc = "run_loop" /\ th[p].ended = "failed") => _objects[p] = <<>>

\* the whole collection, and the number of pages a limit cuts it into
Collection == [i \in 1..srv_n |-> [id |-> i]]
NPages(limit) ==
    LET size == Min(limit, MaxLimit) IN (srv_n + size - 1) \div size

\* C3: with a pagination limit configured, a walk of a well-formed collection
\* of N >= 1 non-empty pages whose last page has links without "next" sends
\* exactly N requests and publishes the N pages in page order.
C3_WalkOfNPages ==
    \A p \in Pollers :
        (/\ th[p].pc = "run_loop" /\ th[p].ended = "ok"
         /\ params[p].limit # None /\ srv_links = "always" /\ srv_n >= 1)
        => (/\ th[p].nreq = NPages(params[p].limit[1])
            /\ _objects[p] = Collection)

\* a walk of three pages or more has been published
C3_Witness ==
    \E p \in Pollers :
        /\ th[p].pc = "run_loop" /\ th[p].ended = "ok"
        /\ params[p].limit # None /\ srv_links = "always"
        /\ th[p].nreq >= 3 /\ _objects[p] = Collection

\* C10: a cycle in which an exception was raised ends with an empty snapshot,
\* and the poller goes on to its next cycle.
C10_ExceptionEmptiesSnapshot ==
    \A p \in Pollers :
        (th[p].pc = "run_loop" /\ th[p].ended = "exception")
        => (_objects[p] = <<>> /\ alive[p] = "alive")

(* --------------------------- the registry ----------------------------- *)
\* a token lifetime that outlasts the clock
LongTTL == EXPIRATION_TOKEN_DELTA + MaxNow + 1

InitThreads(callers) ==
    th = [t \in Threads |->
            IF t \in callers THEN [InitLocals EXCEPT !.pc = "idle"] ELSE InitLocals]

\* one caller, from the state after config_callback
InitRegistrySeq ==
    /\ InitBase
    /\ faults = {"exc", "unauth"}
    /\ srv_n = 1 /\ srv_links = "always"
    /\ srv_cats = {CatNova} /\ srv_ttls = {EXPIRATION_TOKEN_DELTA + MaxLife}
    /\ pagination_limit = None /\ polling_interval = 1
    /\ InitThreads({<<"caller", 1>>})

\* callers on several threads, from the state after a first authentication
\* with nothing polled yet
InitRegistry ==
    /\ token = Some(1) /\ valid_until = Some(LongTTL - EXPIRATION_TOKEN_DELTA)
    /\ tenant_id = Some("tenant")
    /\ service_catalog = <<CatalogEntry(ItemNova)>>
    /\ now = 0 /\ srv_exp = <<LongTTL>>
    /\ _threads = [u \in {} |-> P1]
    /\ _objects = [p \in Pollers |-> <<>>]
    /\ params = [p \in Pollers |-> NoOpts]
    /\ url = [p \in Pollers |-> None]
    /\ alive = [p \in Pollers |-> "unborn"]
    /\ walks_ok = [p \in Pollers |-> {}]
    /\ faults = {}
    /\ srv_n = 1 /\ srv_links = "always"
    /\ srv_cats = {CatNova} /\ srv_ttls = {LongTTL}
    /\ pagination_limit = None /\ polling_interval = 0
    /\ InitThreads(Callers)

NextRegistry ==
    \/ Tick
    \/ \E t \in Callers : ClientStep(t) \/ RegistryStep(t)
    \/ \E p \in Pollers : ClientStep(p) \/ PollerStep(p) \/ Die(p)

\* With a valid token, no fault and a polling interval of 0, get_token,
\* clear_token, the except clause of run and its sleep are never entered, and
\* the clock plays no part: the steps left are
NextRegistryWarm ==
    \/ \E t \in Callers : RegistryStep(t)
    \/ \E p \in Pollers :
        \/ MakeRequestCheck(p) \/ MakeRequestHeader(p) \/ MakeRequestSend(p)
        \/ RunCycle(p) \/ RunRequest(p) \/ RunResponse(p)
        \/ RunPace(p) \/ RunPublish(p)
        \/ Die(p)

SpecRegistry == InitRegistry /\ [][NextRegistryWarm]_vars
SpecRegistrySeq == InitRegistrySeq /\ [][NextRegistry]_vars

(* -------------------------- claims on the registry -------------------- *)
\* C8: however get_objects calls for one URL interleave, at most one poller
\* thread is alive for that URL.
C8_OnePollerPerUrl ==
    \A p, q \in Pollers :
        (alive[p] = "alive" /\ alive[q] = "alive" /\ url[p] = url[q]) => p = q

\* C9: a get_objects call that finds the poller of its URL dead removes the
\* entry, starts no poller and returns an empty snapshot; the next call for
\* that URL creates and starts a fresh poller and registers it under the URL.
C9_DeadPollerEvictedThenRenewed ==
    \A t \in Callers :
        LET res == th[t].result IN
        /\ (th[t].pc = "idle" /\ res.founddead)
            => (/\ res.evicted # None /\ alive[res.evicted[1]] = "dead"
                /\ res.objs = <<>> /\ res.started = None /\ res.raised = ""
                /\ res.url[1] \notin DOMAIN _threads)
        /\ (th[t].pc = "idle" /\ res.renewed # None)
            => (/\ res.started # None /\ res.started # res.renewed
                /\ res.url[1] \in DOMAIN _threads
                /\ _threads[res.url[1]] = res.started[1]
                /\ alive[res.started[1]] # "unborn"
                /\ url[res.started[1]] = res.url)

\* the call after an eviction has returned
C9_Witness ==
    \E t \in Callers : th[t].pc = "idle" /\ th[t].result.renewed # None

\* C11: a get or get_objects call of the plugin made while authentication
\* fails or the catalog is empty ends without raising to its caller.
C11_RegistryCallNeverRaises ==
    \A t \in Callers :
        (th[t].pc = "idle" /\ th[t].result.op \in {"get", "get_objects"})
        => th[t].result.raised = ""

(* ----------------------- count_objects_group_by ----------------------- *)
\* longest list handed to count_objects_group_by and to iter_workers
MaxList == 3

Caller1 == <<"caller", 1>>

\* the plugin at rest: nothing polled, no fault, no server answering
InitQuiet ==
    /\ InitBase
    /\ faults = {}
    /\ srv_n = 0 /\ srv_links = "always"
    /\ srv_cats = {} /\ srv_ttls = {}
    /\ pagination_limit = None /\ polling_interval = 1

\* the locals of thread Caller1 are `locals', the other threads have not started
InitOnly(locals) ==
    th = [t \in Threads |-> IF t = Caller1 THEN locals ELSE InitLocals]

\* An object as the two functions see it: group_by_func(obj) is obj.group,
\* count_func(obj) is obj.count, a number <<n>> or None (not a number)
CountGroups == {"a", "b"}
CountValues == {None, Some(1), Some(2)}
CountObjects == [group : CountGroups, count : CountValues]
CountLists == UNION {[1..k -> CountObjects] : k \in 0..MaxList}

\* line 439, right-hand side: always 1
IncrementOne(obj, has_count_func) == Some(1)
\* line 439, right-hand side: count_func(obj) if count_func else 1
Increment(obj, has_count_func) ==
    IF has_count_func THEN obj.count ELSE Some(1)

\* lines 438-442: counts[s] += v. The defaultdict creates the key s with 0
\* when counts[s] is read, before the addition; adding a value that is not
\* a number raises TypeError, which the except clause drops.
CountAdd(counts, s, v) ==
    LET read == IF s \in DOMAIN counts THEN counts ELSE counts @@ (s :> 0)
    IN IF v = None THEN read ELSE [read EXCEPT ![s] = @ + v[1]]

\* lines 436-442: one turn of the loop over list_object
CountStep(t) ==
    /\ th[t].pc = "cg_loop"
    /\ th[t].i <= Len(th[t].list_object)
    /\ LET l == th[t]
           obj == l.list_object[l.i]
           s == obj.group IN
        Set(t, [l EXCEPT !.counts = CountAdd(l.counts, s, Increment(obj, l.has_count_func)),
                         !.i = @ + 1])
    /\ UNCHANGED <<clientVars, envVars, cfgVars, _threads, pollerVars, walks_ok>>

\* line 443: return counts
CountReturn(t) ==
    /\ th[t].pc = "cg_loop"
    /\ th[t].i > Len(th[t].list_object)
    /\ Set(t, [th[t] EXCEPT !.pc = "cg_done"])
    /\ UNCHANGED <<clientVars, envVars, cfgVars, _threads, pollerVars, walks_ok>>

\* lines 428-435: the call, with counts = defaultdict(int)
InitCount ==
    /\ InitQuiet
    /\ \E lo \in CountLists, cf \in BOOLEAN :
        InitOnly([pc |-> "cg_loop", list_object |-> lo, has_count_func |-> cf,
                  i |-> 1, counts |-> [g \in {} |-> 0]])

NextCount == CountStep(Caller1) \/ CountReturn(Caller1)

SpecCount == InitCount /\ [][NextCount]_vars

\* the objects of `list' that count: all of them without a count_func, those
\* with a numeric count with one
Remaining(list, has_count_func) ==
    SelectSeq(list, LAMBDA o : ~has_count_func \/ o.count # None)
GroupsOf(list) == {list[i].group : i \in DOMAIN list}
RECURSIVE GroupTotal(_, _, _)
GroupTotal(list, g, has_count_func) ==
    IF list = <<>> THEN 0
    ELSE (IF Head(list).group # g THEN 0
          ELSE IF has_count_func THEN Head(list).count[1] ELSE 1)
         + GroupTotal(Tail(list), g, has_count_func)

\* C12 as stated: the result is the mapping the remaining objects alone give,
\* each of their groups with the sum of its counts and no other key.
C12_SameAsWithoutNonNumeric ==
    LET l == th[Caller1]
        rest == Remaining(l.list_object, l.has_count_func) IN
    l.pc = "cg_done"
    => l.counts = [g \in GroupsOf(rest) |-> GroupTotal(rest, g, l.has_count_func)]

\* C12 amended: the result has a key for the group of every input object,
\* with the sum of the counts of the remaining objects of that group; a group
\* whose objects all gave a non-number is present with 0.
C12_TotalsOverRemaining ==
    LET l == th[Caller1]
        rest == Remaining(l.list_object, l.has_count_func) IN
    l.pc = "cg_done"
    => l.counts = [g \in GroupsOf(l.list_object) |->
                      GroupTotal(rest, g, l.has_count_func)]

\* a result with a group of non-numbers only beside a group whose total is 3
C12_Witness ==
    LET l == th[Caller1] IN
    /\ l.pc = "cg_done" /\ l.has_count_func
    /\ \E g \in DOMAIN l.counts : l.counts[g] = 0
    /\ \E g \in DOMAIN l.counts : l.counts[g] = 3

(* ----------------------------- iter_workers --------------------------- *)
Hosts == {"h1", "h2"}
\* an entry of the agent listing of neutron, and of the service listing of
\* the other services
Agents == [host : Hosts, binary : {"agent"}, admin_state_up : BOOLEAN, alive : BOOLEAN]
OsServices == [host : Hosts, binary : {"svc"}, status : {"enabled", "disabled"},
               state : {"up", "down", "unknown"}]
WorkerServices == {"neutron", "nova"}
Listings(service) ==
    LET entries == IF service = "neutron" THEN Agents ELSE OsServices
    IN UNION {[1..k -> entries] : k \in 0..MaxList}
\* what self.get(service, endpoint) of line 304 returned: None, an error
\* status, a body that is not JSON, a body without the entry key, a listing
WorkerAnswers(service) ==
    {[kind |-> k, entries |-> <<>>] : k \in {"none", "error", "nonjson", "nokey"}}
    \cup {[kind |-> "listing", entries |-> e] : e \in Listings(service)}

\* lines 326-340 with the two tests of each shape swapped
WorkerStateLivenessFirst(service, val) ==
    IF service = "neutron"
    THEN IF val.alive THEN "up"
         ELSE IF ~val.admin_state_up THEN "disabled" ELSE "down"
    ELSE IF val.state = "up" \/ val.state = "down" THEN val.state
         ELSE IF val.status = "disabled" THEN "disabled" ELSE "skip"
\* lines 326-340 without the `continue' of the last branch
WorkerStateKeepsUnknown(service, val) ==
    IF service = "neutron"
    THEN IF ~val.admin_state_up THEN "disabled"
         ELSE IF val.alive THEN "up" ELSE "down"
    ELSE IF val.status = "disabled" THEN "disabled" ELSE val.state
\* lines 326-340: the state of an entry, "skip" for the `continue' of line 340
WorkerState(service, val) ==
    IF service = "neutron"
    THEN IF ~val.admin_state_up THEN "disabled"
         ELSE IF val.alive THEN "up" ELSE "down"
    ELSE IF val.status = "disabled" THEN "disabled"
         ELSE IF val.state = "up" \/ val.state = "down" THEN val.state
         ELSE "skip"

\* lines 306-322: without a 200 response holding the entry key nothing is
\* yielded
WorkersCheck(t) ==
    /\ th[t].pc = "iw_check"
    /\ Set(t, [th[t] EXCEPT !.pc = IF th[t].answer.kind = "listing" THEN "iw_loop"
                                   ELSE "iw_done"])
    /\ UNCHANGED <<clientVars, envVars, cfgVars, _threads, pollerVars, walks_ok>>

\* lines 323-342: one entry of the listing. from (history) is the position in
\* the listing of every entry yielded.
WorkersEntry(t) ==
    /\ th[t].pc = "iw_loop"
    /\ th[t].i <= Len(th[t].answer.entries)
    /\ LET l == th[t]
           val == l.answer.entries[l.i]
           state == WorkerState(l.service, val)
           data == [host |-> val.host, service |-> val.binary, state |-> state] IN
        Set(t, IF state = "skip" THEN [l EXCEPT !.i = @ + 1]
               ELSE [l EXCEPT !.i = @ + 1, !.yielded = Append(@, data),
                              !.from = Append(@, l.i)])
    /\ UNCHANGED <<clientVars, envVars, cfgVars, _threads, pollerVars, walks_ok>>

\* line 323: the listing is exhausted, the generator ends
WorkersEnd(t) ==
    /\ th[t].pc = "iw_loop"
    /\ th[t].i > Len(th[t].answer.entries)
    /\ Set(t, [th[t] EXCEPT !.pc = "iw_done"])
    /\ UNCHANGED <<clientVars, envVars, cfgVars, _threads, pollerVars, walks_ok>>

\* iter_workers(service) when self.get, line 304, has returned
InitWorkers ==
    /\ InitQuiet
    /\ \E sv \in WorkerServices :
        \E a \in WorkerAnswers(sv) :
            InitOnly([pc |-> "iw_check", service |-> sv, answer |-> a, i |-> 1,
                      yielded |-> <<>>, from |-> <<>>])

NextWorkers == WorkersCheck(Caller1) \/ WorkersEntry(Caller1) \/ WorkersEnd(Caller1)

SpecWorkers == InitWorkers /\ [][NextWorkers]_vars

\* the entry yielded for position i of the listing, if any
YieldedFor(l, i) == {l.yielded[k].state : k \in {j \in DOMAIN l.from : l.from[j] = i}}

\* C13: of neutron, an agent with admin_state_up false is yielded "disabled"
\* whatever its alive flag, one with admin_state_up true "up" when alive and
\* "down" otherwise; of another service, an entry of status "disabled" is
\* yielded "disabled" whatever its state.
C13_DisabledWinsOverLiveness ==
    LET l == th[Caller1] IN
    l.pc \in {"iw_loop", "iw_done"} =>
        \A i \in 1..(l.i - 1) :
            LET val == l.answer.entries[i] IN
            IF l.service = "neutron"
            THEN YieldedFor(l, i) = {IF ~val.admin_state_up THEN "disabled"
                                     ELSE IF val.alive THEN "up" ELSE "down"}
            ELSE val.status = "disabled" => YieldedFor(l, i) = {"disabled"}

\* both shapes of a disabled worker that looks alive have been yielded
C13_Witness ==
    LET l == th[Caller1] IN
    /\ l.pc = "iw_done" /\ l.answer.kind = "listing"
    /\ \E i \in DOMAIN l.answer.entries :
        LET val == l.answer.entries[i] IN
        /\ YieldedFor(l, i) = {"disabled"}
        /\ IF l.service = "neutron" THEN ~val.admin_state_up /\ val.alive
           ELSE val.status = "disabled" /\ val.state = "up"

Recognized(service, val) ==
    service = "neutron" \/ val.status = "disabled" \/ val.state \in {"up", "down"}
RECURSIVE Positions(_, _, _)
\* the positions i..Len(entries) of the recognized entries, in order
Positions(service, entries, i) ==
    IF i > Len(entries) THEN <<>>
    ELSE (IF Recognized(service, entries[i]) THEN <<i>> ELSE <<>>)
         \o Positions(service, entries, i + 1)

\* C14: every entry yielded has state up, down or disabled; the entries of
\* unrecognized state are skipped and the others are all yielded, in the
\* order of the listing, with their host and binary.
C14_YieldsRecognizedInOrder ==
    LET l == th[Caller1] IN
    /\ l.pc \in {"iw_check", "iw_loop", "iw_done"} =>
        \A k \in DOMAIN l.yielded : l.yielded[k].state \in {"up", "down", "disabled"}
    /\ l.pc = "iw_done" =>
        /\ l.from = Positions(l.service, l.answer.entries, 1)
        /\ \A k \in DOMAIN l.yielded :
            /\ l.yielded[k].host = l.answer.entries[l.from[k]].host
            /\ l.yielded[k].service = l.answer.entries[l.from[k]].binary

\* an entry of unrecognized state was skipped and a later one yielded
C14_Witness ==
    LET l == th[Caller1] IN
    /\ l.pc = "iw_done" /\ l.service # "neutron"
    /\ \E i, j \in DOMAIN l.answer.entries :
        /\ i < j
        /\ ~Recognized(l.service, l.answer.entries[i])
        /\ YieldedFor(l, j) # {}

(* ------------------------------ _build_url ---------------------------- *)
\* longest service catalog _build_url is tried on
MaxCat == 2

\* catalog entries as get_token builds them (lines 109-116): URLs with and
\* without a trailing slash
UrlEntries ==
    [name : {"nova", "keystone"}, region : {"RegionOne"}, service_type : {"t"},
     url : {Str1("n"), Str2("n", "/")}, admin_url : {Str1("m"), Str2("m", "/")}]
UrlCatalogs == UNION {[1..k -> UrlEntries] : k \in 1..MaxCat}
UrlServices == {"nova", "keystone", "cinder"}
UrlResources == {Servers, Tenants, Users, OSKS \o <<"/", "r">>}

\* _build_url(service, resource) called on a session that has authenticated
InitUrl ==
    /\ token = Some(1) /\ valid_until = Some(LongTTL - EXPIRATION_TOKEN_DELTA)
    /\ tenant_id = Some("tenant")
    /\ service_catalog \in UrlCatalogs
    /\ now = 0 /\ srv_exp = <<LongTTL>>
    /\ _threads = [u \in {} |-> P1]
    /\ _objects = [p \in Pollers |-> <<>>]
    /\ params = [p \in Pollers |-> NoOpts]
    /\ url = [p \in Pollers |-> None]
    /\ alive = [p \in Pollers |-> "unborn"]
    /\ walks_ok = [p \in Pollers |-> {}]
    /\ faults = {}
    /\ srv_n = 0 /\ srv_links = "always"
    /\ srv_cats = {} /\ srv_ttls = {}
    /\ pagination_limit = None /\ polling_interval = 1
    /\ \E sv \in UrlServices, rs \in UrlResources :
        InitOnly([InitLocals EXCEPT !.pc = "bu_catalog", !.stack = <<"bu_done">>,
                                    !.service = sv, !.resource = rs])

NextUrl == BuildUrlCatalog(Caller1) \/ BuildUrlReturn(Caller1)

SpecUrl == InitUrl /\ [][NextUrl]_vars

\* a URL without its trailing slash, if it has one
Stem(u) == IF u # <<>> /\ u[Len(u)] = Slash THEN SubSeq(u, 1, Len(u) - 1) ELSE u

\* C15: the URL is built from the administrative URL of the first catalog
\* entry of the service for keystone with tenants, users or a resource
\* containing OS-KS, from its primary URL otherwise; it is the base URL, one
\* "/" and the resource; it is None when the catalog has no such service.
C15_BuildUrl ==
    LET l == th[Caller1]
        hits == {i \in DOMAIN service_catalog : service_catalog[i].name = l.service}
        e == service_catalog[CHOOSE i \in hits : \A j \in hits : i <= j]
        elevated == l.service = "keystone"
                    /\ (l.resource = Tenants \/ l.resource = Users
                        \/ Contains(l.resource, OSKS))
    IN l.pc = "bu_done" =>
        IF hits = {} THEN l.url = None
        ELSE l.url = Some(Stem(IF elevated THEN e.admin_url ELSE e.url)
                          \o <<Slash>> \o l.resource)

\* an OS-KS resource of keystone resolved on the administrative URL
C15_Witness ==
    LET l == th[Caller1] IN
    /\ l.pc = "bu_done" /\ l.service = "keystone"
    /\ l.resource = OSKS \o <<"/", "r">>
    /\ l.url = Some(<<"m", "/">> \o l.resource)

(* ------------------- claims on the poller's cycle --------------------- *)
\* C16: the snapshot of a poller changes only in the assignment that ends a
\* cycle (line 243), after the walk of that cycle; no step in the course of a
\* cycle gives readers another value.
C16_SnapshotAssignedOnlyAtPublish ==
    [][\A p \in Pollers :
        _objects'[p] # _objects[p] => th[p].pc = "run_publish"]_vars

(* --------------- the session shared by concurrent callers ------------- *)
\* two callers on a fresh session; the identity service hands out tokens of
\* two different lifetimes, a resource request may be answered 401
InitShared ==
    /\ InitBase
    /\ faults = {"unauth"}
    /\ srv_n = 1 /\ srv_links = "always"
    /\ srv_cats = {CatNova} /\ srv_ttls = {LongTTL, LongTTL + 1}
    /\ pagination_limit = None /\ polling_interval = 1
    /\ InitThreads(Callers)

NextShared ==
    \E t \in Callers : ClientStep(t) \/ RawGet(t) \/ RawGetReturn(t)

SpecShared == InitShared /\ [][NextShared]_vars

\* C17: whenever is_valid_token() holds, the token held and the expiry held
\* come from the same authentication response.
C17_TokenAndExpiryOfOneResponse ==
    is_valid_token =>
        /\ token[1] <= Len(srv_exp)
        /\ valid_until[1] = srv_exp[token[1]] - EXPIRATION_TOKEN_DELTA

(* ------------- readers of the catalog beside an authentication -------- *)
\* two callers of get on a fresh session; the identity service hands out one
\* catalog, of two services; a resource request may be answered 401, which
\* makes the next request authenticate again
InitCatalog ==
    /\ InitBase
    /\ faults = {"unauth"}
    /\ srv_n = 1 /\ srv_links = "always"
    /\ srv_cats = {CatFull} /\ srv_ttls = {LongTTL}
    /\ pagination_limit = None /\ polling_interval = 1
    /\ InitThreads(Callers)

NextCatalog ==
    \E t \in Callers :
        \/ ClientStep(t)
        \/ BuildUrlCatalog(t) \/ BuildUrlReturn(t)
        \/ Get(t) \/ GetUrl(t) \/ GetReturn(t)

SpecCatalog == InitCatalog /\ [][NextCatalog]_vars

\* the catalogs get_token builds from the complete responses of the service
CompleteCatalogs == {[i \in DOMAIN c |-> CatalogEntry(c[i])] : c \in srv_cats}

\* C18: the catalog is always the empty catalog or the complete catalog of
\* one authentication response, and a reader of the catalog that found it
\* filled, or filled it itself, does not find it emptied when it reads it.
C18_CatalogReplacedWholesale ==
    /\ service_catalog = <<>> \/ service_catalog \in CompleteCatalogs
    /\ \A t \in Callers : th[t].pc = "bu_url" => service_catalog # <<>>

\* C19: a cycle does not end, and so the next does not start, before the
\* polling interval has elapsed since the cycle started; the poller sleeps
\* only when the walk took less than the interval, and then until the
\* interval has elapsed.
C19_Pacing ==
    [][\A p \in Pollers :
        /\ th'[p].pc = "run_publish"
            => now' >= th'[p].started_at + polling_interval
        /\ (th[p].pc = "run_pace" /\ th'[p].pc = "run_sleep")
            => (/\ now < th[p].started_at + polling_interval
                /\ th'[p].wake = th[p].started_at + polling_interval)
        /\ (th[p].pc = "run_pace" /\ th'[p].pc = "run_publish")
            => now >= th[p].started_at + polling_interval]_vars

\* C20: the first request of every cycle carries the base parameters of the
\* poller, which are those it was created with and hold no marker; every
\* further request of the walk carries them with, as marker, the id of the
\* last object of the page just received.
C20_MarkerStartsEmptyThenFollowsPages ==
    \A p \in Pollers :
        /\ alive[p] = "alive"
            => params[p] = [NoOpts EXCEPT !.limit = pagination_limit]
        /\ (th[p].pc = "mr_send" /\ th[p].nreq = 0)
            => th[p].opts = params[p]
        /\ (th[p].pc = "mr_send" /\ th[p].nreq > 0)
            => (/\ th[p].objs # <<>>
                /\ th[p].opts = [params[p] EXCEPT
                                    !.marker = Some(th[p].objs[Len(th[p].objs)].id)])

\* the first request of a cycle that follows a walk of several pages
C20_Witness ==
    \E p \in Pollers :
        /\ th[p].pc = "mr_send" /\ th[p].nreq = 0
        /\ params[p].limit = Some(1)
        /\ Len(_objects[p]) >= 2 /\ _objects[p] \in walks_ok[p]

(* --------------------------- single-page mode ------------------------- *)
\* one poller, with or without a pagination limit, on a server that puts a
\* links field in every response or in none
InitSingle ==
    /\ InitSession
    /\ faults = {"exc", "unauth"}
    /\ srv_n \in 0..MaxObjs
    /\ srv_links \in {"always", "never"}
    /\ srv_cats = {CatNova} /\ srv_ttls = {EXPIRATION_TOKEN_DELTA + MaxLife}
    /\ pagination_limit \in Limits
    /\ polling_interval = 1
    /\ _threads = [u \in {NovaServers} |-> P1]
    /\ _objects = [p \in Pollers |-> <<>>]
    /\ params = [p \in Pollers |->
                    IF p = P1 THEN [NoOpts EXCEPT !.limit = pagination_limit] ELSE NoOpts]
    /\ url = [p \in Pollers |-> IF p = P1 THEN Some(NovaServers) ELSE None]
    /\ alive = [p \in Pollers |-> IF p = P1 THEN "alive" ELSE "unborn"]
    /\ walks_ok = [p \in Pollers |-> {}]
    /\ th = [t \in Threads |->
                IF t = P1 THEN [InitLocals EXCEPT !.pc = "run_loop"] ELSE InitLocals]

SpecSingle == InitSingle /\ [][Next]_vars

\* C21: without a pagination limit, or on a server whose responses carry no
\* links field, a cycle sends at most one request, and the cycle that ends
\* well has sent exactly one and publishes the page it received, whatever
\* the server still holds.
C21_SinglePageMode ==
    \A p \in Pollers :
        (alive[p] = "alive" /\ (params[p].limit = None \/ srv_links = "never"))
        => (/\ th[p].nreq <= 1
            /\ (th[p].pc = "run_loop" /\ th[p].ended = "ok")
                => (/\ th[p].nreq = 1
                    /\ _objects[p] = Page(None, params[p].limit).objs))

\* a cycle without a limit published one page of a larger collection
C21_Witness ==
    \E p \in Pollers :
        /\ th[p].pc = "run_loop" /\ th[p].ended = "ok"
        /\ params[p].limit = None
        /\ _objects[p] # <<>> /\ Len(_objects[p]) < srv_n

(* ------------------- the poller once the faults have ended ------------ *)
\* the network and the servers stop failing
Heal ==
    /\ faults # {}
    /\ faults' = {}
    /\ UNCHANGED <<clientVars, now, srv_exp, srv_n, srv_links, srv_cats, srv_ttls,
                   cfgVars, _threads, pollerVars, th, walks_ok>>

\* run, line 231: time.sleep(tosleep) returns at a time past the last second
\* the clock of the model shows
RunSleepLate(p) ==
    /\ th[p].pc = "run_sleep"
    /\ now = MaxNow /\ th[p].wake > MaxNow
    /\ Set(p, [th[p] EXCEPT !.pc = "run_publish", !.wake = 0])
    /\ UNCHANGED <<clientVars, envVars, cfgVars, _threads, pollerVars, walks_ok>>

\* one poller with a pagination limit; requests fail (no response, or a body
\* without the collection key) until the faults end; a token outlasts the clock
InitLive ==
    /\ InitSession
    /\ faults = {"exc", "nokey"}
    /\ srv_n \in 0..MaxObjs
    /\ srv_links = "always"
    /\ srv_cats = {CatNova} /\ srv_ttls = {LongTTL}
    /\ pagination_limit \in Limits \ {None}
    /\ polling_interval = 1
    /\ _threads = [u \in {NovaServers} |-> P1]
    /\ _objects = [p \in Pollers |-> <<>>]
    /\ params = [p \in Pollers |->
                    IF p = P1 THEN [NoOpts EXCEPT !.limit = pagination_limit] ELSE NoOpts]
    /\ url = [p \in Pollers |-> IF p = P1 THEN Some(NovaServers) ELSE None]
    /\ alive = [p \in Pollers |-> IF p = P1 THEN "alive" ELSE "unborn"]
    /\ walks_ok = [p \in Pollers |-> {}]
    /\ th = [t \in Threads |->
                IF t = P1 THEN [InitLocals EXCEPT !.pc = "run_loop"] ELSE InitLocals]

\* the steps of the poller thread: without a 401 the return of make_request
\* after clear_token (line 156 after 154) is never reached
RunThread(p) ==
    \/ ClearToken1(p) \/ ClearToken2(p)
    \/ GetTokenEnter(p) \/ GetTokenPost(p) \/ GetTokenCheck(p)
    \/ GetTokenToken(p) \/ GetTokenTenant(p) \/ GetTokenExpires(p)
    \/ GetTokenCatalog(p) \/ GetTokenItem(p) \/ GetTokenReturn(p)
    \/ MakeRequestCheck(p) \/ MakeRequestHeader(p) \/ MakeRequestSend(p)
    \/ RunCycle(p) \/ RunRequest(p) \/ RunResponse(p)
    \/ RunPace(p) \/ RunSleep(p) \/ RunSleepLate(p)
    \/ RunExcept(p) \/ RunPublish(p)

NextLive == Tick \/ Heal \/ RunThread(P1)

\* the thread of the poller is scheduled again and again, and time passes
SpecLive ==
    InitLive /\ [][NextLive]_vars /\ WF_vars(RunThread(P1)) /\ WF_vars(Tick)

C23_TokenRequiredCarriesToken ==
    \A t \in Threads :
        (th[t].pc = "mr_send" /\ th[t].treq)
        => (th[t].hdr.set /\ th[t].hdr.val # None)

(* ------------- CrmMonitorPlugin: the operations counter --------------- *)
\* reads of the plugin the model follows
MaxReads == 3

\* node names as crm_mon gives them, <<host, domain>> for "host.domain";
\* two of them shorten to the same hostname
CrmNodes == {<<"n1", "a">>, <<"n1", "b">>, <<"n2", "a">>}
\* shorten_hostname, lines 71-72: v.split('.')[0]
shorten_hostname(v) == v[1]
\* self.resources, lines 42 and 53-54: the monitored resource ids, in the order
\* iteritems() gives them, and their names
CrmResources == <<"r1", "r2">>
resource_name(resource_id) == IF resource_id = "r1" THEN "R1" ELSE "R2"
\* a node element of node_history: its name and, per monitored resource, the
\* call attributes of its operation_history elements
NodeHistories ==
    [name : CrmNodes, calls : [{"r1", "r2"} -> SUBSET {"c1", "c2"}]]
\* what a read gets from crm_mon: nothing usable before line 248 (no output,
\* a parse error, another node is the DC), or a node_history
CrmOutputs ==
    {[usable |-> FALSE, node_history |-> <<>>]}
    \cup {[usable |-> TRUE, node_history |-> h] :
            h \in {<<>>} \cup {<<n>> : n \in NodeHistories}}

\* lines 258-263: the entry of a resource, created at 0 when missing
EntryOf(ops_history, hostname, resource_id) ==
    IF hostname \in DOMAIN ops_history
       /\ resource_id \in DOMAIN ops_history[hostname]
    THEN ops_history[hostname][resource_id]
    ELSE [count |-> 0, call_ids |-> {}]

\* lines 264-266 counting every call id of the read
UpdateCountsAll(v, call_ids) ==
    IF call_ids # {}
    THEN [count |-> v.count + Cardinality(call_ids), call_ids |-> call_ids]
    ELSE v
\* lines 264-266: if call_ids: v['count'] += len(call_ids - v['call_ids']);
\* v['call_ids'] = call_ids
UpdateEntry(v, call_ids) ==
    IF call_ids # {}
    THEN [count |-> v.count + Cardinality(call_ids \ v.call_ids),
          call_ids |-> call_ids]
    ELSE v

\* itermetrics, lines 79-247: a read starts and gets to the node_history,
\* or returns before it
OpsRead(t) ==
    /\ th[t].pc = "ops_idle"
    /\ th[t].reads < MaxReads
    /\ \E out \in CrmOutputs :
        Set(t, [th[t] EXCEPT !.reads = @ + 1, !.out = out, !.ni = 1, !.ri = 1,
                             !.yielded = <<>>,
                             !.pc = IF out.usable THEN "ops_node" ELSE "ops_idle"])
    /\ UNCHANGED <<clientVars, envVars, cfgVars, _threads, pollerVars, walks_ok>>

\* lines 248-251: the next node of node_history, or the end of the read
OpsNode(t) ==
    /\ th[t].pc = "ops_node"
    /\ LET l == th[t] IN
        IF l.ni > Len(l.out.node_history)
        THEN Set(t, [l EXCEPT !.pc = "ops_idle", !.out = CHOOSE o \in CrmOutputs : ~o.usable])
        ELSE LET hostname == shorten_hostname(l.out.node_history[l.ni].name) IN
             Set(t, [l EXCEPT !.pc = "ops_resource", !.ri = 1,
                              !.ops_history =
                                  IF hostname \in DOMAIN @ THEN @
                                  ELSE @ @@ (hostname :> <<>>)])
    /\ UNCHANGED <<clientVars, envVars, cfgVars, _threads, pollerVars, walks_ok>>

\* lines 253-272: one monitored resource of the node, or the end of the node
OpsResource(t) ==
    /\ th[t].pc = "ops_resource"
    /\ LET l == th[t] IN
        IF l.ri > Len(CrmResources)
        THEN Set(t, [l EXCEPT !.pc = "ops_node", !.ni = @ + 1, !.ri = 1])
        ELSE LET node == l.out.node_history[l.ni]
                 hostname == shorten_hostname(node.name)
                 resource_id == CrmResources[l.ri]
                 call_ids == node.calls[resource_id]
                 v == UpdateEntry(EntryOf(l.ops_history, hostname, resource_id), call_ids)
                 of_host == l.ops_history[hostname]
             IN Set(t, [l EXCEPT
                    !.ri = @ + 1,
                    !.ops_history[hostname] =
                        [r \in DOMAIN of_host \cup {resource_id} |->
                            IF r = resource_id THEN v ELSE of_host[r]],
                    !.yielded = Append(@, [type_instance |-> "resource_operations",
                                           values |-> v.count,
                                           hostname |-> hostname,
                                           resource |-> resource_name(resource_id)])])
    /\ UNCHANGED <<clientVars, envVars, cfgVars, _threads, pollerVars, walks_ok>>

\* the plugin after __init__ and config_callback (lines 36-56), owned by the
\* thread that runs its reads
InitOps ==
    /\ InitQuiet
    /\ InitOnly([pc |-> "ops_idle", ops_history |-> <<>>, reads |-> 0,
                 out |-> CHOOSE o \in CrmOutputs : ~o.usable,
                 ni |-> 1, ri |-> 1, yielded |-> <<>>])

NextOps == OpsRead(Caller1) \/ OpsNode(Caller1) \/ OpsResource(Caller1)

SpecOps == InitOps /\ [][NextOps]_vars

\* C24: the resource_operations count of a (node, resource) never decreases
\* from one step of a read to the next; the step that handles a resource
\* of a node whose set of call ids is non-empty adds to the count the number
\* of call ids absent from the remembered set and remembers the new set; with
\* an empty set it leaves the count and the remembered set as they were; the
\* value it reports is the count, and no other entry changes.
C24_OperationsCounter ==
    [][LET l == th[Caller1]
           n == th'[Caller1]
           handles == l.pc = "ops_resource" /\ l.ri <= Len(CrmResources)
       IN \A h \in {shorten_hostname(c) : c \in CrmNodes},
             r \in {CrmResources[i] : i \in 1..Len(CrmResources)} :
           LET old == EntryOf(l.ops_history, h, r)
               new == EntryOf(n.ops_history, h, r)
           IN /\ new.count >= old.count
              /\ IF handles
                    /\ h = shorten_hostname(l.out.node_history[l.ni].name)
                    /\ r = CrmResources[l.ri]
                 THEN LET call_ids == l.out.node_history[l.ni].calls[r] IN
                      /\ call_ids # {} =>
                            /\ new.count = old.count + Cardinality(call_ids \ old.call_ids)
                            /\ new.call_ids = call_ids
                      /\ call_ids = {} => new = old
                      /\ Len(n.yielded) = Len(l.yielded) + 1
                      /\ n.yielded[Len(n.yielded)].hostname = h
                      /\ n.yielded[Len(n.yielded)].resource = resource_name(r)
                      /\ n.yielded[Len(n.yielded)].values = new.count
                 ELSE new = old
      ]_vars

\* a third read has ended with a count of 3 reported for a resource whose
\* remembered set holds one call id: one read added two, one added one and
\* one added none
C24_Witness ==
    LET l == th[Caller1] IN
    /\ "ops_history" \in DOMAIN l
    /\ l.pc = "ops_idle"
    /\ l.reads = MaxReads
    /\ \E i \in 1..Len(l.yielded) :
        /\ l.yielded[i].values = 3
        /\ \E h \in {shorten_hostname(c) : c \in CrmNodes},
              r \in {CrmResources[k] : k \in 1..Len(CrmResources)} :
            /\ l.yielded[i].hostname = h
            /\ l.yielded[i].resource = resource_name(r)
            /\ EntryOf(l.ops_history, h, r).count = 3
            /\ Cardinality(EntryOf(l.ops_history, h, r).call_ids) = 1
====
